---- MODULE Spec2Model ----
(***************************************************************************)
(* Keyboard control of a robot base over a websocket.                      *)
(*                                                                         *)
(* Three tasks share seven independently locked fields:                    *)
(*   - the keyboard debouncer  (lib/keyboard_input.rs, spawn_handler)      *)
(*   - the websocket receiver  (spawn_websocket_receiver)                  *)
(*   - the reconciliation loop (main)                                      *)
(*                                                                         *)
(* Time.  Every std::time::Instant the program stores is modelled by the   *)
(* time elapsed since it was taken, in milliseconds, saturating at a cap.  *)
(* Time passes in quanta of the debouncer's poll timeout (50 ms).  A       *)
(* duration the code measures is known up to one quantum, so a comparison  *)
(* `elapsed > d' is certain when the modelled age is above or below d and  *)
(* may go either way when the modelled age equals d (the flag `late').     *)
(***************************************************************************)
EXTENDS Integers, Sequences, FiniteSets, TLC

\* ------------------------------------------------------------------ bounds
\* keys the operator holds down at the same time
MaxHeld == 2
\* cap of the modelled age of a key record, ms
MaxKeyAge == 600

\* cap of the modelled age of an error notice, ms
MaxErrAge == 3500

\* --------------------------------------------------------------- constants
\* the protocol major version this client accepts
ACCEPTABLE_PROTOCOL_MAJOR_VERSION == 1
\* how long an error notice lives, ms
ErrorExpiry == 3000
\* 0.1 m/s, in mm/s
LINEAR_SPEED == 100
\* 0.5 rad/s, in mrad/s
ANGULAR_SPEED == 500
\* event::poll timeout, ms
PollTimeout == 50
\* release_time after a repeat of a tracked key, ms
ReleaseShort == 100
\* release_time after the first press of an untracked key, ms
ReleaseLong == 500

\* KeyCode values: the six directional keys, one key without a meaning, and
\* the terminate key
DirKeys == {"w", "s", "d", "a", "q", "e"}
TerminateKey == "c"
Keys == DirKeys \cup {"x"}

Min(a, b) == IF a < b THEN a ELSE b

\* Option<T>
None == << >>
Some(v) == <<v>>

VARIABLES
    \* ---- KeyboardInput (shared)
    speed,          \* Mutex<SpeedData>
    should_exit,    \* Mutex<bool>
    pressed_keys,   \* Mutex<HashMap<KeyCode,KeyState>>
    \* ---- debouncer task (local)
    release_time,   \* Duration
    kb_pc,          \* "poll" | "update_speed" | "speed_locked" | "done"
    poll_elapsed,   \* time spent in the current event::poll
    last_event,     \* what the latest event::read returned
    \* ---- main (shared)
    control_state,  \* Mutex<ControlState>
    odometry_data,  \* Mutex<Option<SpeedData>>
    emergency_stop, \* Mutex<bool>
    error_message,  \* Mutex<ErrorMessage>
    \* ---- receiver task (local)
    rx_pc,          \* "recv" | "log" | "parking" | "emergency" | "expire" |
                    \* "odometry" | "state" | "notice" | "done"
    msg,            \* the decoded ApiUp
    state,          \* what handle_base_status returned
    last_status,    \* the latest ApiUp that carried a BaseStatus
    \* ---- reconciliation loop (local)
    loop_pc,        \* "sleep" | "speed" | "odometry" | "keys" | "error" |
                    \* "emergency" | "draw" | "act" | "closing" | "match" |
                    \* "init" | "done"
    current_state,
    target_speed,
    actual_speed,
    pressed,        \* the keys of the copied map, all that draw() uses
    error_msg,      \* the message of the copied notice, all that draw() uses
    emergency,
    draws,          \* ui.draw calls of this tick
    draw_ok,        \* whether the latest ui.draw returned Ok
    tick_out,       \* ws_sink.send calls of this tick, with their outcome
    \* ---- the seven mutexes
    lock_owner      \* who holds each lock between two steps

kbVars == <<speed, should_exit, pressed_keys, release_time, kb_pc,
            poll_elapsed, last_event>>

sharedVars == <<control_state, odometry_data, emergency_stop, error_message>>

rxVars == <<rx_pc, msg, state, last_status>>

loopVars == <<loop_pc, current_state, target_speed, actual_speed, pressed,
              error_msg, emergency, draws, draw_ok, tick_out>>

vars == <<kbVars, sharedVars, rxVars, loopVars, lock_owner>>

\* the Mutex of every shared field
Locks == {"speed", "should_exit", "pressed_keys", "control_state",
          "odometry_data", "emergency_stop", "error_message"}

\* lock() returns only when nobody holds the mutex
Free(l) == lock_owner[l] = "free"

\* SpeedData::default()
ZeroSpeed == [x |-> 0, y |-> 0, z |-> 0]

\* HashMap::new()
NoKeys == << >>

\* ===================================================== keyboard debouncer

\* one axis of update_speed: if / else-if over key membership
AxisSpeed(held, pos, neg, spd) ==
    IF pos \in held THEN spd
    ELSE IF neg \in held THEN -spd
    ELSE 0

\* update_speed with the y axis driven by the angular speed
update_speed_YAngular(held) ==
    [x |-> AxisSpeed(held, "w", "s", LINEAR_SPEED),
     y |-> AxisSpeed(held, "d", "a", ANGULAR_SPEED),
     z |-> AxisSpeed(held, "q", "e", ANGULAR_SPEED)]

\* KeyboardInput::update_speed
update_speed(held) ==
    [x |-> AxisSpeed(held, "w", "s", LINEAR_SPEED),
     y |-> AxisSpeed(held, "d", "a", LINEAR_SPEED),
     z |-> AxisSpeed(held, "q", "e", ANGULAR_SPEED)]

\* now.duration_since(state.last_seen) > release_time
Overdue(age, limit, late) ==
    \/ age > limit
    \/ late /\ age = limit

\* every key compared with a window of its own
released_keys_OwnWindow(keys, limit, late) ==
    {k \in DOMAIN keys :
        Overdue(keys[k].last_seen,
                IF keys[k].is_holding THEN ReleaseShort ELSE ReleaseLong,
                late)}

\* the keys the eviction pass removes
released_keys(keys, limit, late) ==
    {k \in DOMAIN keys : Overdue(keys[k].last_seen, limit, late)}

\* keys.remove(&key) for every released key
RemoveKeys(keys, gone) ==
    [k \in (DOMAIN keys) \ gone |-> keys[k]]

\* the match on keys.get_mut(&key_code): a repeat refreshes the record, a
\* first press inserts one
TrackKey(keys, k) ==
    IF k \in DOMAIN keys
    THEN [keys EXCEPT ![k] = [last_seen |-> 0, is_holding |-> TRUE]]
    ELSE [j \in (DOMAIN keys) \cup {k} |->
             IF j = k THEN [last_seen |-> 0, is_holding |-> FALSE]
             ELSE keys[j]]

\* release_time never shortened by a repeat
ReleaseTimeAfter_AlwaysLong(keys, k) == ReleaseLong

\* release_time as the match leaves it
ReleaseTimeAfter(keys, k) ==
    IF k \in DOMAIN keys THEN ReleaseShort ELSE ReleaseLong

\* the eviction pass made on a key event too
KbdKeyEvent_Evicts(k) ==
    /\ kb_pc = "poll"
    /\ Free("pressed_keys")
    /\ k \in DOMAIN pressed_keys \/ Cardinality(DOMAIN pressed_keys) < MaxHeld
    /\ pressed_keys' =
          TrackKey(RemoveKeys(pressed_keys,
                              released_keys(pressed_keys, release_time,
                                            FALSE) \ {k}), k)
    /\ release_time' = ReleaseTimeAfter(pressed_keys, k)
    /\ last_event' = k
    /\ kb_pc' = "update_speed"
    /\ poll_elapsed' = 0
    /\ UNCHANGED <<speed, should_exit>>
    /\ UNCHANGED <<sharedVars, rxVars, loopVars, lock_owner>>

\* poll returned Ok(true) and read() a key event other than the terminate key
KbdKeyEvent(k) ==
    /\ kb_pc = "poll"
    /\ Free("pressed_keys")
    /\ k \in DOMAIN pressed_keys \/ Cardinality(DOMAIN pressed_keys) < MaxHeld
    /\ pressed_keys' = TrackKey(pressed_keys, k)
    /\ release_time' = ReleaseTimeAfter(pressed_keys, k)
    /\ last_event' = k
    /\ kb_pc' = "update_speed"
    /\ poll_elapsed' = 0
    /\ UNCHANGED <<speed, should_exit>>
    /\ UNCHANGED <<sharedVars, rxVars, loopVars, lock_owner>>

KbdKey == \E k \in Keys : KbdKeyEvent(k)

\* the terminate key sets the flag and the debouncer goes on
KbdTerminate_NoBreak ==
    /\ kb_pc = "poll"
    /\ Free("should_exit")
    /\ should_exit' = TRUE
    /\ last_event' = TerminateKey
    /\ kb_pc' = "update_speed"
    /\ poll_elapsed' = 0
    /\ UNCHANGED <<speed, pressed_keys, release_time>>
    /\ UNCHANGED <<sharedVars, rxVars, loopVars, lock_owner>>

\* poll returned Ok(true) and read() the terminate key: set the flag, break
KbdTerminate ==
    /\ kb_pc = "poll"
    /\ Free("should_exit")
    /\ should_exit' = TRUE
    /\ last_event' = TerminateKey
    /\ kb_pc' = "done"
    /\ poll_elapsed' = 0
    /\ UNCHANGED <<speed, pressed_keys, release_time>>
    /\ UNCHANGED <<sharedVars, rxVars, loopVars, lock_owner>>

\* poll returned Ok(true) and read() an event that is not a key event
KbdOtherEvent ==
    /\ kb_pc = "poll"
    /\ last_event' = "other"
    /\ kb_pc' = "update_speed"
    /\ poll_elapsed' = 0
    /\ UNCHANGED <<speed, should_exit, pressed_keys, release_time>>
    /\ UNCHANGED <<sharedVars, rxVars, loopVars, lock_owner>>

\* poll returned Ok(false): the eviction pass
KbdTimeout ==
    /\ kb_pc = "poll"
    /\ Free("pressed_keys")
    /\ poll_elapsed = PollTimeout
    /\ \E late \in BOOLEAN :
          pressed_keys' = RemoveKeys(pressed_keys,
                              released_keys(pressed_keys, release_time, late))
    /\ kb_pc' = "update_speed"
    /\ poll_elapsed' = 0
    /\ UNCHANGED <<speed, should_exit, release_time, last_event>>
    /\ UNCHANGED <<sharedVars, rxVars, loopVars, lock_owner>>

\* the target velocity zeroed when the poll fails
KbdPollError_Stop ==
    /\ kb_pc = "poll"
    /\ Free("speed")
    /\ speed' = ZeroSpeed
    /\ kb_pc' = "done"
    /\ poll_elapsed' = 0
    /\ UNCHANGED <<should_exit, pressed_keys, release_time, last_event>>
    /\ UNCHANGED <<sharedVars, rxVars, loopVars, lock_owner>>

\* poll returned Err: break
KbdPollError ==
    /\ kb_pc = "poll"
    /\ kb_pc' = "done"
    /\ poll_elapsed' = 0
    /\ UNCHANGED <<speed, should_exit, pressed_keys, release_time, last_event>>
    /\ UNCHANGED <<sharedVars, rxVars, loopVars, lock_owner>>

\* update_speed, first lock: keys.lock()
KbdLockKeys ==
    /\ kb_pc = "update_speed"
    /\ Free("pressed_keys")
    /\ kb_pc' = "speed_locked"
    /\ UNCHANGED <<speed, should_exit, pressed_keys, release_time,
                   poll_elapsed, last_event>>
    /\ UNCHANGED <<sharedVars, rxVars, loopVars>>
    /\ lock_owner' = [lock_owner EXCEPT !["pressed_keys"] = "kbd"]

\* the recompute skipped when no key is tracked
KbdUpdateSpeed_SkipEmpty ==
    /\ kb_pc = "speed_locked"
    /\ Free("speed")
    /\ speed' = IF pressed_keys = NoKeys THEN speed
                ELSE update_speed(DOMAIN pressed_keys)
    /\ kb_pc' = "poll"
    /\ UNCHANGED <<should_exit, pressed_keys, release_time, poll_elapsed,
                   last_event>>
    /\ UNCHANGED <<sharedVars, rxVars, loopVars>>
    /\ lock_owner' = [lock_owner EXCEPT !["pressed_keys"] = "free"]

\* the keys guard kept after the recompute
KbdUpdateSpeed_KeepLock ==
    /\ kb_pc = "speed_locked"
    /\ Free("speed")
    /\ speed' = update_speed(DOMAIN pressed_keys)
    /\ kb_pc' = "poll"
    /\ UNCHANGED <<should_exit, pressed_keys, release_time, poll_elapsed,
                   last_event>>
    /\ UNCHANGED <<sharedVars, rxVars, loopVars, lock_owner>>

\* update_speed, second lock and the recompute; both guards are dropped at
\* the end of the function
KbdUpdateSpeed ==
    /\ kb_pc = "speed_locked"
    /\ Free("speed")
    /\ speed' = update_speed(DOMAIN pressed_keys)
    /\ kb_pc' = "poll"
    /\ UNCHANGED <<should_exit, pressed_keys, release_time, poll_elapsed,
                   last_event>>
    /\ UNCHANGED <<sharedVars, rxVars, loopVars>>
    /\ lock_owner' = [lock_owner EXCEPT !["pressed_keys"] = "free"]

\* ====================================================== websocket receiver

\* session identities a frame can name
SessionIds == {1, 2}
\* protocol major versions a frame can carry
ProtocolVersions == {1, 2}
\* estimated_odometry readings
OdometryValues == {[x |-> 100, y |-> 0, z |-> 0], [x |-> 0, y |-> 0, z |-> 0]}
\* parking_stop_detail values
ParkingDetails == {"EmergencyStopButton"}
\* log values
LogValues == {"log"}

\* ApiUp without a status
PlainFrames ==
    [log : {None} \cup {Some(l) : l \in LogValues},
     session_id : SessionIds,
     protocol_major_version : ProtocolVersions,
     status : {"none"}]

\* ApiUp with Status::BaseStatus
StatusFrames ==
    [log : {None} \cup {Some(l) : l \in LogValues},
     session_id : SessionIds,
     protocol_major_version : ProtocolVersions,
     status : {"base"},
     parking_stop_detail : {None} \cup {Some(d) : d \in ParkingDetails},
     session_holder : SessionIds,
     api_control_initialized : BOOLEAN,
     estimated_odometry : {None} \cup {Some(o) : o \in OdometryValues}]

Frames == PlainFrames \cup StatusFrames

\* ApiUp::default(), what msg holds before the first frame
ApiUpDefault ==
    [log |-> None, session_id |-> 0, protocol_major_version |-> 0,
     status |-> "none"]

\* ErrorMessage::default()
NoError == [message |-> <<"">>, timestamp |-> None]

\* ErrorMessage::new
NewError(message) == [message |-> message, timestamp |-> Some(0)]

\* is_expired without the comparison with the duration
is_expired_Any(err, duration, late) == err.timestamp # None

\* ErrorMessage::is_expired
is_expired(err, duration, late) ==
    IF err.timestamp # None
    THEN Overdue(err.timestamp[1], duration, late)
    ELSE FALSE

\* format!("Emergency Stop: {:?}", parking_detail)
EmergencyText(detail) == <<"Emergency Stop: ", detail>>
\* format!("Log: {:?}", log)
LogText(log) == <<"Log: ", log>>
ControlLostText == <<"Control in hands of another user">>
VersionMismatchText == <<"Protocol version mismatch">>

\* the holder test made before the api-initialized test
DetermineState_HolderFirst(api_initialized, parking, session_holder, session_id) ==
    IF ~parking /\ session_holder = session_id THEN "CanMove"
    ELSE IF ~api_initialized THEN "Uninitialized"
    ELSE "InitializedButNotHold"

\* handle_base_status: "Determine control state"
DetermineState(api_initialized, parking, session_holder, session_id) ==
    IF ~api_initialized THEN "Uninitialized"
    ELSE IF ~parking /\ session_holder = session_id THEN "CanMove"
    ELSE "InitializedButNotHold"

\* the state handle_base_status computes for a frame
StateOf(f) ==
    DetermineState(f.api_control_initialized,
                   f.parking_stop_detail # None,
                   f.session_holder, f.session_id)

\* where the receiver goes after the log field
AfterLog(f) == IF f.status = "base" THEN "parking" ELSE "recv"

\* ws_stream.next() gave a binary message that decodes to f
RxFrame(f) ==
    /\ rx_pc = "recv"
    /\ msg' = f
    /\ last_status' = IF f.status = "base" THEN Some(f) ELSE last_status
    /\ rx_pc' = IF f.log # None THEN "log" ELSE AfterLog(f)
    /\ UNCHANGED <<state, sharedVars, kbVars, loopVars, lock_owner>>

RxRecv == \E f \in Frames : RxFrame(f)

\* the control state taken back when the receiver ends
RxFail_Reset ==
    /\ rx_pc = "recv"
    /\ rx_pc' = "done"
    /\ control_state' = "Uninitialized"
    /\ UNCHANGED <<odometry_data, emergency_stop, error_message>>
    /\ UNCHANGED <<msg, state, last_status, kbVars, loopVars, lock_owner>>

\* the stream ended, msg.unwrap() or decode().unwrap() panicked
RxFail ==
    /\ rx_pc = "recv"
    /\ rx_pc' = "done"
    /\ UNCHANGED <<msg, state, last_status, sharedVars, kbVars, loopVars,
                   lock_owner>>

\* the log notice raised only by a frame that carries a base status
RxLog_OnlyWithStatus ==
    /\ rx_pc = "log"
    /\ Free("error_message")
    /\ error_message' = IF msg.status = "base"
                        THEN NewError(LogText(msg.log[1]))
                        ELSE error_message
    /\ rx_pc' = AfterLog(msg)
    /\ UNCHANGED <<control_state, odometry_data, emergency_stop>>
    /\ UNCHANGED <<msg, state, last_status, kbVars, loopVars, lock_owner>>

\* if let Some(log) = msg.log
RxLog ==
    /\ rx_pc = "log"
    /\ Free("error_message")
    /\ error_message' = NewError(LogText(msg.log[1]))
    /\ rx_pc' = AfterLog(msg)
    /\ UNCHANGED <<control_state, odometry_data, emergency_stop>>
    /\ UNCHANGED <<msg, state, last_status, kbVars, loopVars, lock_owner>>

\* the emergency flag left as it is by a frame without parking detail
RxParking_NoClear ==
    /\ rx_pc = "parking"
    /\ Free(IF msg.parking_stop_detail # None THEN "error_message"
            ELSE "emergency_stop")
    /\ IF msg.parking_stop_detail # None
       THEN /\ error_message' =
                  NewError(EmergencyText(msg.parking_stop_detail[1]))
            /\ rx_pc' = "emergency"
            /\ UNCHANGED emergency_stop
       ELSE /\ rx_pc' = "expire"
            /\ UNCHANGED <<emergency_stop, error_message>>
    /\ UNCHANGED <<control_state, odometry_data>>
    /\ UNCHANGED <<msg, state, last_status, kbVars, loopVars, lock_owner>>

\* handle_base_status, first lock: the notice of a parking stop, or the
\* emergency flag cleared
RxParking ==
    /\ rx_pc = "parking"
    /\ Free(IF msg.parking_stop_detail # None THEN "error_message"
            ELSE "emergency_stop")
    /\ IF msg.parking_stop_detail # None
       THEN /\ error_message' =
                  NewError(EmergencyText(msg.parking_stop_detail[1]))
            /\ rx_pc' = "emergency"
            /\ UNCHANGED emergency_stop
       ELSE /\ emergency_stop' = FALSE
            /\ rx_pc' = "expire"
            /\ UNCHANGED error_message
    /\ UNCHANGED <<control_state, odometry_data>>
    /\ UNCHANGED <<msg, state, last_status, kbVars, loopVars, lock_owner>>

\* *emergency_stop.lock().unwrap() = true
RxEmergency ==
    /\ rx_pc = "emergency"
    /\ Free("emergency_stop")
    /\ emergency_stop' = TRUE
    /\ rx_pc' = "odometry"
    /\ UNCHANGED <<control_state, odometry_data, error_message>>
    /\ UNCHANGED <<msg, state, last_status, kbVars, loopVars, lock_owner>>

\* "Clear error message after 3 seconds"
RxExpire ==
    /\ rx_pc = "expire"
    /\ Free("error_message")
    /\ \E late \in BOOLEAN :
          error_message' = IF is_expired(error_message, ErrorExpiry, late)
                           THEN NoError ELSE error_message
    /\ rx_pc' = "odometry"
    /\ UNCHANGED <<control_state, odometry_data, emergency_stop>>
    /\ UNCHANGED <<msg, state, last_status, kbVars, loopVars, lock_owner>>

\* the odometry stored whatever the state is
RxOdometry_Always ==
    /\ rx_pc = "odometry"
    /\ msg.estimated_odometry # None => Free("odometry_data")
    /\ state' = StateOf(msg)
    /\ odometry_data' =
          IF msg.estimated_odometry # None
          THEN msg.estimated_odometry ELSE odometry_data
    /\ rx_pc' = "state"
    /\ UNCHANGED <<control_state, emergency_stop, error_message>>
    /\ UNCHANGED <<msg, last_status, kbVars, loopVars, lock_owner>>

\* the state is determined; "Update odometry data if we have control"
RxOdometry ==
    /\ rx_pc = "odometry"
    /\ (StateOf(msg) = "CanMove" /\ msg.estimated_odometry # None)
          => Free("odometry_data")
    /\ state' = StateOf(msg)
    /\ odometry_data' =
          IF StateOf(msg) = "CanMove" /\ msg.estimated_odometry # None
          THEN msg.estimated_odometry ELSE odometry_data
    /\ rx_pc' = "state"
    /\ UNCHANGED <<control_state, emergency_stop, error_message>>
    /\ UNCHANGED <<msg, last_status, kbVars, loopVars, lock_owner>>

\* control refused to a frame of another protocol version
RxState_VersionGate ==
    /\ rx_pc = "state"
    /\ Free("control_state")
    /\ control_state' =
          IF state = "CanMove"
             /\ msg.protocol_major_version # ACCEPTABLE_PROTOCOL_MAJOR_VERSION
          THEN "InitializedButNotHold" ELSE state
    /\ rx_pc' = "notice"
    /\ UNCHANGED <<odometry_data, emergency_stop, error_message>>
    /\ UNCHANGED <<msg, state, last_status, kbVars, loopVars, lock_owner>>

\* the stored state kept when the frame takes CanMove back to Uninitialized
RxState_KeepCanMove ==
    /\ rx_pc = "state"
    /\ Free("control_state")
    /\ control_state' = IF control_state = "CanMove" /\ state = "Uninitialized"
                        THEN control_state ELSE state
    /\ rx_pc' = "notice"
    /\ UNCHANGED <<odometry_data, emergency_stop, error_message>>
    /\ UNCHANGED <<msg, state, last_status, kbVars, loopVars, lock_owner>>

\* *control_state.lock().unwrap() = state
RxState ==
    /\ rx_pc = "state"
    /\ Free("control_state")
    /\ control_state' = state
    /\ rx_pc' = "notice"
    /\ UNCHANGED <<odometry_data, emergency_stop, error_message>>
    /\ UNCHANGED <<msg, state, last_status, kbVars, loopVars, lock_owner>>

\* the emergency notice of the frame kept in place of the control-lost one
RxNotice_KeepEmergency ==
    /\ rx_pc = "notice"
    /\ Free("error_message")
    /\ error_message' =
          IF state = "InitializedButNotHold"
             /\ msg.parking_stop_detail = None
          THEN NewError(ControlLostText)
          ELSE IF state = "CanMove"
                  /\ msg.protocol_major_version
                        # ACCEPTABLE_PROTOCOL_MAJOR_VERSION
          THEN NewError(VersionMismatchText)
          ELSE error_message
    /\ rx_pc' = "recv"
    /\ UNCHANGED <<control_state, odometry_data, emergency_stop>>
    /\ UNCHANGED <<msg, state, last_status, kbVars, loopVars, lock_owner>>

\* the control-lost notice forced only when no notice is shown
RxNotice_KeepShown ==
    /\ rx_pc = "notice"
    /\ Free("error_message")
    /\ error_message' =
          IF state = "InitializedButNotHold" /\ error_message = NoError
          THEN NewError(ControlLostText)
          ELSE IF state = "CanMove"
                  /\ msg.protocol_major_version
                        # ACCEPTABLE_PROTOCOL_MAJOR_VERSION
          THEN NewError(VersionMismatchText)
          ELSE error_message
    /\ rx_pc' = "recv"
    /\ UNCHANGED <<control_state, odometry_data, emergency_stop>>
    /\ UNCHANGED <<msg, state, last_status, kbVars, loopVars, lock_owner>>

\* the two notices the receiver forces after the state is stored
RxNotice ==
    /\ rx_pc = "notice"
    /\ Free("error_message")
    /\ error_message' =
          IF state = "InitializedButNotHold"
          THEN NewError(ControlLostText)
          ELSE IF state = "CanMove"
                  /\ msg.protocol_major_version
                        # ACCEPTABLE_PROTOCOL_MAJOR_VERSION
          THEN NewError(VersionMismatchText)
          ELSE error_message
    /\ rx_pc' = "recv"
    /\ UNCHANGED <<control_state, odometry_data, emergency_stop>>
    /\ UNCHANGED <<msg, state, last_status, kbVars, loopVars, lock_owner>>

\* ===================================================== reconciliation loop

\* create_set_frequency_msg
create_set_frequency_msg(frequency) ==
    [down |-> "SetReportFrequency", frequency |-> frequency]
\* create_init_msg
create_init_msg == [down |-> "ApiControlInitialize", enable |-> TRUE]
\* create_move_msg
create_move_msg(speed_x, speed_y, speed_z) ==
    [down |-> "XyzSpeed", speed_x |-> speed_x, speed_y |-> speed_y,
     speed_z |-> speed_z]
\* create_close_msg
create_close_msg == [down |-> "ApiControlInitialize", enable |-> FALSE]

\* ws_sink.send(m) with its outcome
Sent(m, ok) == [msg |-> m, ok |-> ok]

\* the sleep is over: let current_state = *control_state.lock().unwrap()
LoopReadState ==
    /\ loop_pc = "sleep"
    /\ Free("control_state")
    /\ current_state' = control_state
    /\ tick_out' = << >>
    /\ draws' = 0
    /\ draw_ok' = TRUE
    /\ loop_pc' = "speed"
    /\ UNCHANGED <<target_speed, actual_speed, pressed, error_msg, emergency>>
    /\ UNCHANGED <<kbVars, sharedVars, rxVars, lock_owner>>

\* let target_speed = keyboard_clone.get_speed()
LoopReadSpeed ==
    /\ loop_pc = "speed"
    /\ Free("speed")
    /\ target_speed' = speed
    /\ loop_pc' = "odometry"
    /\ UNCHANGED <<current_state, actual_speed, pressed, error_msg, emergency,
                   draws, tick_out>>
    /\ UNCHANGED <<draw_ok, kbVars, sharedVars, rxVars, lock_owner>>

\* let actual_speed = *odometry_data.lock().unwrap()
LoopReadOdometry ==
    /\ loop_pc = "odometry"
    /\ Free("odometry_data")
    /\ actual_speed' = odometry_data
    /\ loop_pc' = "keys"
    /\ UNCHANGED <<current_state, target_speed, pressed, error_msg, emergency,
                   draws, tick_out>>
    /\ UNCHANGED <<draw_ok, kbVars, sharedVars, rxVars, lock_owner>>

\* let pressed_keys = keyboard_clone.get_pressed_keys(); waits while
\* update_speed holds the lock
LoopReadKeys ==
    /\ loop_pc = "keys"
    /\ Free("pressed_keys")
    /\ pressed' = DOMAIN pressed_keys
    /\ loop_pc' = "error"
    /\ UNCHANGED <<current_state, target_speed, actual_speed, error_msg,
                   emergency, draws, tick_out>>
    /\ UNCHANGED <<draw_ok, kbVars, sharedVars, rxVars, lock_owner>>

\* let error_msg = error_message.lock().unwrap().clone()
LoopReadError ==
    /\ loop_pc = "error"
    /\ Free("error_message")
    /\ error_msg' = error_message.message
    /\ loop_pc' = "emergency"
    /\ UNCHANGED <<current_state, target_speed, actual_speed, pressed,
                   emergency, draws, tick_out>>
    /\ UNCHANGED <<draw_ok, kbVars, sharedVars, rxVars, lock_owner>>

\* the emergency flag of the snapshot cleared while the state read is CanMove
LoopReadEmergency_Consistent ==
    /\ loop_pc = "emergency"
    /\ Free("emergency_stop")
    /\ emergency' = (emergency_stop /\ current_state # "CanMove")
    /\ loop_pc' = "draw"
    /\ UNCHANGED <<current_state, target_speed, actual_speed, pressed,
                   error_msg, draws, tick_out>>
    /\ UNCHANGED <<draw_ok, kbVars, sharedVars, rxVars, lock_owner>>

\* let emergency = *emergency_stop.lock().unwrap()
LoopReadEmergency ==
    /\ loop_pc = "emergency"
    /\ Free("emergency_stop")
    /\ emergency' = emergency_stop
    /\ loop_pc' = "draw"
    /\ UNCHANGED <<current_state, target_speed, actual_speed, pressed,
                   error_msg, draws, tick_out>>
    /\ UNCHANGED <<draw_ok, kbVars, sharedVars, rxVars, lock_owner>>

\* the loop ended by a failed draw
LoopDraw_AbortOnError ==
    /\ loop_pc = "draw"
    /\ draws' = draws + 1
    /\ draw_ok' \in BOOLEAN
    /\ actual_speed' = None
    /\ pressed' = {}
    /\ error_msg' = <<"">>
    /\ emergency' = FALSE
    /\ loop_pc' = IF draw_ok' THEN "act" ELSE "done"
    /\ UNCHANGED <<current_state, target_speed, tick_out>>
    /\ UNCHANGED <<kbVars, sharedVars, rxVars, lock_owner>>

\* ui.draw(...): it returns Ok or Err and the result is dropped.
\* actual_speed, pressed_keys, error_msg and emergency are not used after
\* the call.
LoopDraw ==
    /\ loop_pc = "draw"
    /\ draws' = draws + 1
    /\ draw_ok' \in BOOLEAN
    /\ actual_speed' = None
    /\ pressed' = {}
    /\ error_msg' = <<"">>
    /\ emergency' = FALSE
    /\ loop_pc' = "act"
    /\ UNCHANGED <<current_state, target_speed, tick_out>>
    /\ UNCHANGED <<kbVars, sharedVars, rxVars, lock_owner>>

\* the terminate flag obeyed only by a tick that read CanMove
LoopExit_OnlyCanMove ==
    /\ loop_pc = "act"
    /\ Free("should_exit")
    /\ should_exit
    /\ current_state = "CanMove"
    /\ \E ok \in BOOLEAN : tick_out' = <<Sent(create_close_msg, ok)>>
    /\ loop_pc' = "closing"
    /\ UNCHANGED <<current_state, target_speed, actual_speed, pressed,
                   error_msg, emergency, draws>>
    /\ UNCHANGED <<draw_ok, kbVars, sharedVars, rxVars, lock_owner>>

\* the close message sent without leaving the loop
LoopExit_NoBreak ==
    /\ loop_pc = "act"
    /\ Free("should_exit")
    /\ should_exit
    /\ \E ok \in BOOLEAN : tick_out' = <<Sent(create_close_msg, ok)>>
    /\ loop_pc' = "sleep"
    /\ UNCHANGED <<current_state, target_speed, actual_speed, pressed,
                   error_msg, emergency, draws>>
    /\ UNCHANGED <<draw_ok, kbVars, sharedVars, rxVars, lock_owner>>

\* should_exit() gave true: send the close message and ignore its outcome
LoopExit ==
    /\ loop_pc = "act"
    /\ Free("should_exit")
    /\ should_exit
    /\ \E ok \in BOOLEAN : tick_out' = <<Sent(create_close_msg, ok)>>
    /\ loop_pc' = "closing"
    /\ UNCHANGED <<current_state, target_speed, actual_speed, pressed,
                   error_msg, emergency, draws>>
    /\ UNCHANGED <<draw_ok, kbVars, sharedVars, rxVars, lock_owner>>

\* the sleep of 100 ms after the close message is over: break
LoopBreak ==
    /\ loop_pc = "closing"
    /\ loop_pc' = "done"
    /\ UNCHANGED <<current_state, target_speed, actual_speed, pressed,
                   error_msg, emergency, draws, tick_out>>
    /\ UNCHANGED <<draw_ok, kbVars, sharedVars, rxVars, lock_owner>>

\* should_exit() gave false: on to the match on current_state
LoopNoExit ==
    /\ loop_pc = "act"
    /\ Free("should_exit")
    /\ ~should_exit
    /\ loop_pc' = "match"
    /\ UNCHANGED <<current_state, target_speed, actual_speed, pressed,
                   error_msg, emergency, draws, tick_out>>
    /\ UNCHANGED <<draw_ok, kbVars, sharedVars, rxVars, lock_owner>>

\* the two commands of the Uninitialized branch in the other order
LoopUninitialized_Swapped ==
    /\ loop_pc = "match"
    /\ current_state = "Uninitialized"
    /\ \E ok \in BOOLEAN :
          /\ tick_out' = <<Sent(create_init_msg, ok)>>
          /\ loop_pc' = IF ok THEN "init" ELSE "done"
    /\ UNCHANGED <<current_state, target_speed, actual_speed, pressed,
                   error_msg, emergency, draws>>
    /\ UNCHANGED <<draw_ok, kbVars, sharedVars, rxVars, lock_owner>>

\* ControlState::Uninitialized, first send: set the report frequency;
\* break if the send fails
LoopUninitialized ==
    /\ loop_pc = "match"
    /\ current_state = "Uninitialized"
    /\ \E ok \in BOOLEAN :
          /\ tick_out' = <<Sent(create_set_frequency_msg("Rf50Hz"), ok)>>
          /\ loop_pc' = IF ok THEN "init" ELSE "done"
    /\ UNCHANGED <<current_state, target_speed, actual_speed, pressed,
                   error_msg, emergency, draws>>
    /\ UNCHANGED <<draw_ok, kbVars, sharedVars, rxVars, lock_owner>>

\* ControlState::Uninitialized, second send: initialize the api control;
\* break if the send fails
LoopInit ==
    /\ loop_pc = "init"
    /\ \E ok \in BOOLEAN :
          /\ tick_out' = Append(tick_out, Sent(create_init_msg, ok))
          /\ loop_pc' = IF ok THEN "sleep" ELSE "done"
    /\ UNCHANGED <<current_state, target_speed, actual_speed, pressed,
                   error_msg, emergency, draws>>
    /\ UNCHANGED <<draw_ok, kbVars, sharedVars, rxVars, lock_owner>>

\* the move command skipped while the target velocity is zero
LoopCanMove_SkipZero ==
    /\ loop_pc = "match"
    /\ current_state = "CanMove"
    /\ \E ok \in BOOLEAN :
          /\ tick_out' =
                IF target_speed = ZeroSpeed THEN << >>
                ELSE <<Sent(create_move_msg(target_speed.x, target_speed.y,
                                            target_speed.z), ok)>>
          /\ loop_pc' = IF ok THEN "sleep" ELSE "done"
    /\ UNCHANGED <<current_state, target_speed, actual_speed, pressed,
                   error_msg, emergency, draws>>
    /\ UNCHANGED <<draw_ok, kbVars, sharedVars, rxVars, lock_owner>>

\* the loop going on after a failed move
LoopCanMove_IgnoreFailure ==
    /\ loop_pc = "match"
    /\ current_state = "CanMove"
    /\ \E ok \in BOOLEAN :
          tick_out' = <<Sent(create_move_msg(target_speed.x, target_speed.y,
                                            target_speed.z), ok)>>
    /\ loop_pc' = "sleep"
    /\ UNCHANGED <<current_state, target_speed, actual_speed, pressed,
                   error_msg, emergency, draws>>
    /\ UNCHANGED <<draw_ok, kbVars, sharedVars, rxVars, lock_owner>>

\* ControlState::CanMove: send the move command; break if the send fails
LoopCanMove ==
    /\ loop_pc = "match"
    /\ current_state = "CanMove"
    /\ \E ok \in BOOLEAN :
          /\ tick_out' = <<Sent(create_move_msg(target_speed.x, target_speed.y,
                                                target_speed.z), ok)>>
          /\ loop_pc' = IF ok THEN "sleep" ELSE "done"
    /\ UNCHANGED <<current_state, target_speed, actual_speed, pressed,
                   error_msg, emergency, draws>>
    /\ UNCHANGED <<draw_ok, kbVars, sharedVars, rxVars, lock_owner>>

\* a move command sent without holding control
LoopNotHold_Moves ==
    /\ loop_pc = "match"
    /\ current_state = "InitializedButNotHold"
    /\ tick_out' = <<Sent(create_move_msg(target_speed.x, target_speed.y,
                                          target_speed.z), TRUE)>>
    /\ loop_pc' = "sleep"
    /\ UNCHANGED <<current_state, target_speed, actual_speed, pressed,
                   error_msg, emergency, draws>>
    /\ UNCHANGED <<draw_ok, kbVars, sharedVars, rxVars, lock_owner>>

\* ControlState::InitializedButNotHold: continue
LoopNotHold ==
    /\ loop_pc = "match"
    /\ current_state = "InitializedButNotHold"
    /\ loop_pc' = "sleep"
    /\ UNCHANGED <<current_state, target_speed, actual_speed, pressed,
                   error_msg, emergency, draws, tick_out>>
    /\ UNCHANGED <<draw_ok, kbVars, sharedVars, rxVars, lock_owner>>

\* ==================================================================== time
\* The key records and the error notice are never compared with each other,
\* so each has a clock of its own: Tick for the key records, in quanta of
\* the poll timeout, and ErrTick for the notice, in quanta of ErrQuantum.

\* every key record grows older by one quantum
AgeKeys(keys) ==
    [k \in DOMAIN keys |->
        [keys[k] EXCEPT !.last_seen = Min(@ + PollTimeout, MaxKeyAge)]]

\* Time passes while the debouncer waits in event::poll (at most the poll
\* timeout) or has ended; the steps between two polls take no time.
Tick ==
    /\ \/ kb_pc = "poll" /\ poll_elapsed < PollTimeout
       \/ kb_pc = "done"
    /\ pressed_keys # NoKeys \/ kb_pc = "poll"
    /\ pressed_keys' = AgeKeys(pressed_keys)
    /\ poll_elapsed' = IF kb_pc = "poll" THEN poll_elapsed + PollTimeout
                       ELSE poll_elapsed
    /\ UNCHANGED <<speed, should_exit, release_time, kb_pc, last_event>>
    /\ UNCHANGED <<sharedVars, rxVars, loopVars, lock_owner>>

\* The age of a notice is kept in steps of one lifetime: 0 stands for a
\* notice younger than ErrorExpiry, ErrorExpiry for one about that old (the
\* comparison then goes either way) and MaxErrAge for an older one.
ErrQuantum == ErrorExpiry

\* the error notice grows older by one quantum
AgeError(err) ==
    IF err.timestamp = None THEN err
    ELSE [err EXCEPT !.timestamp = Some(Min(@[1] + ErrQuantum, MaxErrAge))]

ErrTick ==
    /\ error_message.timestamp # None
    /\ error_message' = AgeError(error_message)
    /\ UNCHANGED <<control_state, odometry_data, emergency_stop>>
    /\ UNCHANGED <<kbVars, rxVars, loopVars, lock_owner>>

\* ========================================================== specifications

Init ==
    /\ speed = ZeroSpeed
    /\ should_exit = FALSE
    /\ pressed_keys = NoKeys
    /\ release_time = ReleaseShort
    /\ kb_pc = "poll"
    /\ poll_elapsed = 0
    /\ last_event = "none"
    /\ control_state = "Uninitialized"
    /\ odometry_data = None
    /\ emergency_stop = FALSE
    /\ error_message = NoError
    /\ rx_pc = "recv"
    /\ msg = ApiUpDefault
    /\ state = "Uninitialized"
    /\ last_status = None
    /\ loop_pc = "sleep"
    /\ current_state = "Uninitialized"
    /\ target_speed = ZeroSpeed
    /\ actual_speed = None
    /\ pressed = {}
    /\ error_msg = <<"">>
    /\ emergency = FALSE
    /\ draws = 0
    /\ draw_ok = TRUE
    /\ tick_out = << >>
    /\ lock_owner = [l \in Locks |-> "free"]

KbdNext ==
    \/ KbdKey
    \/ KbdTerminate
    \/ KbdOtherEvent
    \/ KbdTimeout
    \/ KbdPollError
    \/ KbdLockKeys
    \/ KbdUpdateSpeed
    \/ Tick

RxNext ==
    \/ RxRecv
    \/ RxFail
    \/ RxLog
    \/ RxParking
    \/ RxEmergency
    \/ RxExpire
    \/ RxOdometry
    \/ RxState
    \/ RxNotice

LoopNext ==
    \/ LoopReadState
    \/ LoopReadSpeed
    \/ LoopReadOdometry
    \/ LoopReadKeys
    \/ LoopReadError
    \/ LoopReadEmergency
    \/ LoopDraw
    \/ LoopExit
    \/ LoopBreak
    \/ LoopNoExit
    \/ LoopUninitialized
    \/ LoopInit
    \/ LoopCanMove
    \/ LoopNotHold

\* the debouncer on its own
SpecKbd == Init /\ [][KbdNext]_vars

\* the receiver on its own
RxTimed ==
    \/ RxNext
    \/ ErrTick

SpecRx == Init /\ [][RxTimed]_vars

\* The loop with both producers and both clocks.  The frames are those of
\* the session holder that decide the control state and the emergency flag,
\* the keys are the forward key and the terminate key.
LoopFrames ==
    {f \in StatusFrames :
        /\ f.log = None
        /\ f.session_id = 1
        /\ f.session_holder = 1
        /\ f.protocol_major_version = ACCEPTABLE_PROTOCOL_MAJOR_VERSION
        /\ f.estimated_odometry = None}

LoopKeys == {"w"}

RxRecvLoop == \E f \in LoopFrames : RxFrame(f)

KbdKeyLoop == \E k \in LoopKeys : KbdKeyEvent(k)

LoopSystem ==
    \/ LoopNext
    \/ RxRecvLoop
    \/ RxFail
    \/ RxParking
    \/ RxEmergency
    \/ RxExpire
    \/ RxOdometry
    \/ RxState
    \/ RxNotice
    \/ KbdKeyLoop
    \/ KbdTerminate
    \/ KbdTimeout
    \/ KbdPollError
    \/ KbdLockKeys
    \/ KbdUpdateSpeed
    \/ Tick
    \/ ErrTick

SpecLoop == Init /\ [][LoopSystem]_vars

\* The loop with the receiver, the frames of both protocol versions, the
\* terminate key and the clock of the notice.
VersionFrames ==
    {f \in StatusFrames : f.log = None /\ f.session_id = 1}

RxRecvVersion == \E f \in VersionFrames : RxFrame(f)

VersionSystem ==
    \/ LoopNext
    \/ RxRecvVersion
    \/ RxParking
    \/ RxEmergency
    \/ RxExpire
    \/ RxOdometry
    \/ RxState
    \/ RxNotice
    \/ KbdTerminate
    \/ ErrTick

SpecVersion == Init /\ [][VersionSystem]_vars

\* The loop under fair ticking, with the terminate key, the clock of the
\* notice and the frames that give the three control states.
ExitFrames ==
    {f \in StatusFrames :
        /\ f.log = None
        /\ f.session_id = 1
        /\ f.protocol_major_version = ACCEPTABLE_PROTOCOL_MAJOR_VERSION
        /\ f.parking_stop_detail = None
        /\ f.estimated_odometry = None}

RxRecvExit == \E f \in ExitFrames : RxFrame(f)

ExitSystem ==
    \/ LoopNext
    \/ RxRecvExit
    \/ RxParking
    \/ RxExpire
    \/ RxOdometry
    \/ RxState
    \/ RxNotice
    \/ KbdTerminate
    \/ ErrTick

SpecExit == Init /\ [][ExitSystem]_vars /\ WF_vars(LoopNext)

\* the whole program
Next ==
    \/ KbdNext
    \/ RxNext
    \/ ErrTick
    \/ LoopNext

Spec == Init /\ [][Next]_vars

\* ================================================================== claims

\* ---- C1
\* C1: the state handle_base_status computes for a frame is Uninitialized
\* when the frame is not api-initialized, whatever its holder and parking
\* detail; otherwise CanMove when it has no parking detail and its holder is
\* the frame's own session id; otherwise InitializedButNotHold.
C1_StateRule ==
    rx_pc \in {"state", "notice"} =>
        /\ ~msg.api_control_initialized => state = "Uninitialized"
        /\ ( /\ msg.api_control_initialized
             /\ msg.parking_stop_detail = None
             /\ msg.session_holder = msg.session_id ) => state = "CanMove"
        /\ ( /\ msg.api_control_initialized
             /\ \/ msg.parking_stop_detail # None
                \/ msg.session_holder # msg.session_id )
           => state = "InitializedButNotHold"

\* a frame that is not api-initialized, holds the session and has no parking
\* detail has been handled
C1_Witness ==
    /\ rx_pc = "notice"
    /\ ~msg.api_control_initialized
    /\ msg.session_holder = msg.session_id
    /\ msg.parking_stop_detail = None
    /\ state = "Uninitialized"

\* ---- C2
\* the state the claim assigns to a status frame
C2_StateFor(f) ==
    IF ~f.api_control_initialized THEN "Uninitialized"
    ELSE IF f.parking_stop_detail = None /\ f.session_holder = f.session_id
    THEN "CanMove"
    ELSE "InitializedButNotHold"

\* C2: whenever the receiver is between frames, the shared control state is
\* a function of the latest status frame alone (and is the initial
\* Uninitialized before the first one), whatever frames came before it.
C2_LatestFrameDecides ==
    rx_pc \in {"recv", "done"} =>
        control_state = IF last_status = None THEN "Uninitialized"
                        ELSE C2_StateFor(last_status[1])

\* the receiver is between frames, the latest status frame took control
\* away, and an earlier frame had given it (its odometry is still there)
C2_Witness ==
    /\ rx_pc = "recv"
    /\ last_status # None
    /\ control_state = "InitializedButNotHold"
    /\ odometry_data # None

\* ---- the loop's ticks
\* the step of a tick that reads the terminate flag
ActStep == loop_pc = "act" /\ loop_pc' # "act"

\* the step of a tick that found the terminate flag not set and takes the
\* branch of the state it read: the first send of that branch, if it has one
SendStep == loop_pc = "match" /\ loop_pc' # "match"

\* the second send of the Uninitialized branch
InitStep == loop_pc = "init" /\ loop_pc' # "init"

\* the break that follows the close message
BreakStep == loop_pc = "closing" /\ loop_pc' # "closing"

\* a step of a tick that takes a branch or sends
CommandStep == (ActStep /\ should_exit) \/ SendStep \/ InitStep

\* once the loop has ended nothing is sent any more
LoopStaysEnded ==
    loop_pc = "done" => (loop_pc' = "done" /\ tick_out' = tick_out)

ReleaseControl == [down |-> "ApiControlInitialize", enable |-> FALSE]
AcquireControl == [down |-> "ApiControlInitialize", enable |-> TRUE]
ReportAt50Hz == [down |-> "SetReportFrequency", frequency |-> "Rf50Hz"]
MoveAt(v) ==
    [down |-> "XyzSpeed", speed_x |-> v.x, speed_y |-> v.y, speed_z |-> v.z]

\* a tick has run to its end
TickOver == loop_pc \in {"sleep", "done"} /\ draws = 1

\* ---- C3
\* C3: a tick that read CanMove and finds the terminate flag set sends
\* exactly one release-control command and ends the loop, and after the loop
\* has ended no command is sent.
C3_ReleaseOnceThenExit ==
    [][ /\ (ActStep /\ should_exit /\ current_state = "CanMove") =>
            /\ Len(tick_out') = 1
            /\ tick_out'[1].msg = ReleaseControl
            /\ loop_pc' = "closing"
        /\ loop_pc = "closing" =>
            /\ tick_out' = tick_out
            /\ loop_pc' \in {"closing", "done"}
        /\ LoopStaysEnded ]_vars

\* the loop has ended on a CanMove tick with the release command
C3_Witness ==
    /\ loop_pc = "done"
    /\ draws = 1
    /\ should_exit
    /\ current_state = "CanMove"
    /\ Len(tick_out) = 1
    /\ tick_out[1].msg = ReleaseControl

\* ---- C4
\* C4 as stated: a tick that read InitializedButNotHold sends nothing.
C4_NotHoldSendsNothing ==
    (TickOver /\ current_state = "InitializedButNotHold") => tick_out = << >>

\* C4, amended: a tick that read InitializedButNotHold and finds the
\* terminate flag not set sends nothing and the loop goes on.
C4_NotHoldSendsNothingUnlessExit ==
    [][ (SendStep /\ current_state = "InitializedButNotHold")
        => (tick_out' = << >> /\ loop_pc' = "sleep") ]_vars

\* a tick that read InitializedButNotHold is over and the loop goes on
C4_Witness ==
    /\ loop_pc = "sleep"
    /\ draws = 1
    /\ current_state = "InitializedButNotHold"
    /\ tick_out = << >>

\* ---- C5
\* C5: a tick that read CanMove and finds the terminate flag not set sends
\* exactly one command, the move command with the target velocity read on
\* this tick, also when that velocity is zero.
C5_MoveEveryTick ==
    [][ (SendStep /\ current_state = "CanMove") =>
            /\ Len(tick_out') = 1
            /\ tick_out'[1].msg = MoveAt(target_speed) ]_vars

\* a CanMove tick with the zero target velocity has sent its move command
C5_Witness ==
    /\ loop_pc = "sleep"
    /\ draws = 1
    /\ current_state = "CanMove"
    /\ target_speed = ZeroSpeed
    /\ Len(tick_out) = 1
    /\ tick_out[1].msg = MoveAt(ZeroSpeed)

\* ---- C6
\* C6: a tick that read Uninitialized and finds the terminate flag not set
\* sends set-report-frequency(50Hz) and then acquire-control; if the first
\* send fails the second is not made and the loop ends.
C6_InitEveryTick ==
    [][ /\ (SendStep /\ current_state = "Uninitialized") =>
            /\ Len(tick_out') = 1
            /\ tick_out'[1].msg = ReportAt50Hz
            /\ loop_pc' = IF tick_out'[1].ok THEN "init" ELSE "done"
        /\ loop_pc' = "init" =>
            (loop_pc = "init" \/ (SendStep /\ current_state = "Uninitialized"))
        /\ (loop_pc = "init" /\ ~InitStep) => tick_out' = tick_out
        /\ InitStep =>
            /\ Len(tick_out') = 2
            /\ tick_out'[1] = tick_out[1]
            /\ tick_out'[2].msg = AcquireControl
            /\ loop_pc' = IF tick_out'[2].ok THEN "sleep" ELSE "done" ]_vars

\* an Uninitialized tick after a status frame has sent both commands
C6_Witness ==
    /\ loop_pc = "sleep"
    /\ draws = 1
    /\ last_status # None
    /\ current_state = "Uninitialized"
    /\ Len(tick_out) = 2
    /\ tick_out[1] = [msg |-> ReportAt50Hz, ok |-> TRUE]
    /\ tick_out[2] = [msg |-> AcquireControl, ok |-> TRUE]

\* ---- C7
\* C7: a failed send of set-report-frequency, acquire-control or move is the
\* last send of its tick and ends the loop, and after the loop has ended no
\* command is sent, whatever the terminate flag becomes.
C7_SendFailureEndsLoop ==
    [][ /\ CommandStep =>
            \A i \in 1..Len(tick_out') :
                (~tick_out'[i].ok /\ tick_out'[i].msg # ReleaseControl)
                => (i = Len(tick_out') /\ loop_pc' = "done")
        /\ LoopStaysEnded ]_vars

\* the loop ended on a failed move, and the terminate flag was set after it
C7_Witness ==
    /\ loop_pc = "done"
    /\ should_exit
    /\ Len(tick_out) = 1
    /\ tick_out[1].msg = MoveAt(target_speed)
    /\ ~tick_out[1].ok

\* ---- C8
\* C8: after the recompute, two opposite keys held together give 0 on their
\* axis.
C8_OppositeKeysCancel ==
    kb_pc = "poll" =>
        /\ {"w", "s"} \subseteq DOMAIN pressed_keys => speed.x = 0
        /\ {"d", "a"} \subseteq DOMAIN pressed_keys => speed.y = 0
        /\ {"q", "e"} \subseteq DOMAIN pressed_keys => speed.z = 0

\* ---- C9
\* C9: every component of the target velocity is 0 or plus or minus the
\* configured speed of its axis; it is zero before the first event; and
\* after the recompute with only the forward key tracked it is
\* (+linear, 0, 0), with or without the holding flag.
C9_SpeedRange ==
    /\ speed.x \in {-LINEAR_SPEED, 0, LINEAR_SPEED}
    /\ speed.y \in {-LINEAR_SPEED, 0, LINEAR_SPEED}
    /\ speed.z \in {-ANGULAR_SPEED, 0, ANGULAR_SPEED}
    /\ last_event = "none" => speed = [x |-> 0, y |-> 0, z |-> 0]
    /\ (kb_pc \in {"poll", "done"} /\ DOMAIN pressed_keys = {"w"})
       => speed = [x |-> LINEAR_SPEED, y |-> 0, z |-> 0]

\* only the forward key is tracked, as a held key, and the recompute ran
C9_Witness ==
    /\ kb_pc = "poll"
    /\ DOMAIN pressed_keys = {"w"}
    /\ pressed_keys["w"].is_holding
    /\ speed = [x |-> LINEAR_SPEED, y |-> 0, z |-> 0]

\* ---- C10
\* the window the claim gives a key: 500 ms after a single press, 100 ms
\* after a repeat
C10_Window(rec) == IF rec.is_holding THEN ReleaseShort ELSE ReleaseLong

\* C10 as stated: while the debouncer runs, no record outlives its own
\* window by more than one poll, whatever other events arrive.
C10_EveryKeyOwnWindow ==
    kb_pc # "done" =>
        \A k \in DOMAIN pressed_keys :
            pressed_keys[k].last_seen
                <= C10_Window(pressed_keys[k]) + PollTimeout

\* C10, amended: while the debouncer runs, the record of the key of the
\* latest input event does not outlive its window (500 ms after a single
\* press, 100 ms after a repeat) by more than one poll, and after the
\* recompute an axis none of whose keys is tracked is 0.
C10_LatestKeyOwnWindow ==
    /\ kb_pc # "done" =>
          \A k \in DOMAIN pressed_keys :
              last_event = k =>
                  pressed_keys[k].last_seen
                      <= C10_Window(pressed_keys[k]) + PollTimeout
    /\ kb_pc = "poll" =>
          /\ DOMAIN pressed_keys \cap {"w", "s"} = {} => speed.x = 0
          /\ DOMAIN pressed_keys \cap {"d", "a"} = {} => speed.y = 0
          /\ DOMAIN pressed_keys \cap {"q", "e"} = {} => speed.z = 0

\* the forward key was pressed once, nothing followed, and it is gone
C10_Witness ==
    /\ kb_pc = "poll"
    /\ last_event = "w"
    /\ release_time = ReleaseLong
    /\ pressed_keys = NoKeys
    /\ speed = ZeroSpeed

\* ---- C11
\* the step of handle_base_status that looks at the age of the notice; it is
\* taken only for a status frame without parking detail
ExpireStep == rx_pc = "expire" /\ rx_pc' # "expire"

\* C11 as stated: a notice that is 3 s old or older is cleared by the status
\* frame without parking detail that finds it, a younger one is not.
C11_ClearedFromThreeSeconds ==
    [][ (ExpireStep /\ error_message.timestamp # None) =>
            IF error_message.timestamp[1] >= ErrorExpiry
            THEN error_message' = NoError
            ELSE error_message' = error_message ]_vars

\* C11, amended: a notice that is more than 3 s old is cleared by the status
\* frame without parking detail that finds it, a notice younger than 3 s is
\* left as it is, and nothing else ever empties a notice.
C11_ClearedAfterThreeSeconds ==
    [][ /\ (ExpireStep /\ error_message.timestamp # None) =>
            /\ error_message.timestamp[1] > ErrorExpiry
                  => error_message' = NoError
            /\ error_message.timestamp[1] < ErrorExpiry
                  => error_message' = error_message
        /\ (error_message # NoError /\ error_message' = NoError)
              => (ExpireStep /\ error_message.timestamp[1] >= ErrorExpiry)
      ]_vars

\* the frame before forced the control-lost notice, and the frame in hand
\* has just found the notice expired and cleared it
C11_Witness ==
    /\ rx_pc = "odometry"
    /\ control_state = "InitializedButNotHold"
    /\ msg.parking_stop_detail = None
    /\ msg.log = None
    /\ error_message = NoError

\* ---- C12
\* C12: whenever the receiver is between frames, the emergency flag is true
\* exactly if the latest status frame carried a parking detail (false before
\* the first status frame); frames without a status do not count.
C12_EmergencyMirrorsParking ==
    rx_pc \in {"recv", "done"} =>
        emergency_stop = IF last_status = None THEN FALSE
                         ELSE last_status[1].parking_stop_detail # None

\* a frame without a status was handled after a status frame with a parking
\* detail, and the flag is still set
C12_Witness ==
    /\ rx_pc = "recv"
    /\ msg.status = "none"
    /\ msg.log # None
    /\ last_status # None
    /\ emergency_stop

\* ---- C13
\* the frame in hand gives control and carries an odometry reading
C13_Overwrites(f) ==
    /\ f.api_control_initialized
    /\ f.parking_stop_detail = None
    /\ f.session_holder = f.session_id
    /\ f.estimated_odometry # None

\* C13: the actual velocity changes only in the odometry step of a status
\* frame whose state is CanMove and that carries a reading, and then to that
\* reading; such a frame always stores its reading; a stored value never
\* becomes absent.
C13_OdometryOnlyInCanMove ==
    [][ /\ odometry_data' # odometry_data =>
              (rx_pc = "odometry" /\ C13_Overwrites(msg))
        /\ (rx_pc = "odometry" /\ rx_pc' # "odometry" /\ C13_Overwrites(msg))
              => odometry_data' = msg.estimated_odometry
        /\ odometry_data # None => odometry_data' # None ]_vars

\* a frame that is not api-initialized carried another reading and left the
\* stored one as it was
C13_Witness ==
    /\ rx_pc = "recv"
    /\ last_status # None
    /\ msg = last_status[1]
    /\ ~msg.api_control_initialized
    /\ msg.estimated_odometry # None
    /\ odometry_data # None
    /\ odometry_data # msg.estimated_odometry

\* ---- C14
\* the last step of a status frame, where the receiver forces its notices
NoticeStep == rx_pc = "notice" /\ rx_pc' # "notice"

\* the notice of a lost control, just raised
ControlLostNotice ==
    [message |-> <<"Control in hands of another user">>,
     timestamp |-> Some(0)]

\* C14: a status frame whose state is InitializedButNotHold always ends with
\* the control-lost notice, freshly raised, whatever the notice was.
C14_ControlLostForced ==
    [][ (NoticeStep /\ C2_StateFor(msg) = "InitializedButNotHold")
        => error_message' = ControlLostNotice ]_vars

\* an api-initialized frame with a parking detail is done: the emergency
\* notice it raised a moment ago has been replaced
C14_Witness ==
    /\ rx_pc = "recv"
    /\ last_status # None
    /\ msg = last_status[1]
    /\ msg.api_control_initialized
    /\ msg.parking_stop_detail # None
    /\ emergency_stop
    /\ error_message = ControlLostNotice

\* ---- C15
\* the frame with the accepted protocol version in place of its own
Accepted(f) ==
    [f EXCEPT !.protocol_major_version = ACCEPTABLE_PROTOCOL_MAJOR_VERSION]

VersionDiffers(f) ==
    f.protocol_major_version # ACCEPTABLE_PROTOCOL_MAJOR_VERSION

\* the mismatch notice, just raised
VersionMismatchNotice ==
    [message |-> <<"Protocol version mismatch">>, timestamp |-> Some(0)]

\* C15: a status frame of another protocol major version ends with the
\* mismatch notice if its state is CanMove and with the notice of the same
\* frame of the accepted version otherwise; the control state and the
\* odometry it stores and the emergency flag are those of the same frame of
\* the accepted version, and a tick that read CanMove still sends the move
\* command.
C15_VersionMismatchOnlyNotice ==
    [][ /\ (NoticeStep /\ VersionDiffers(msg)) =>
              error_message' =
                 IF C2_StateFor(Accepted(msg)) = "CanMove"
                 THEN VersionMismatchNotice
                 ELSE IF C2_StateFor(Accepted(msg)) = "InitializedButNotHold"
                 THEN ControlLostNotice
                 ELSE error_message
        /\ (rx_pc = "state" /\ rx_pc' # "state") =>
              control_state' = C2_StateFor(Accepted(msg))
        /\ (rx_pc = "odometry" /\ rx_pc' # "odometry") =>
              odometry_data' = IF C13_Overwrites(Accepted(msg))
                               THEN msg.estimated_odometry
                               ELSE odometry_data
        /\ (rx_pc \in {"parking", "emergency"} /\ rx_pc' = "odometry") =>
              emergency_stop' = (msg.parking_stop_detail # None)
        /\ (rx_pc \notin {"state"}) => control_state' = control_state
        /\ (loop_pc = "state" /\ loop_pc' # "state") =>
              current_state' = control_state
        /\ (SendStep /\ current_state = "CanMove") =>
              /\ Len(tick_out') = 1
              /\ tick_out'[1].msg = MoveAt(target_speed) ]_vars

\* a CanMove frame of another version is done, its odometry is stored, the
\* mismatch notice is up, and a tick that read CanMove has sent its move
C15_Witness ==
    /\ rx_pc = "recv"
    /\ last_status # None
    /\ msg = last_status[1]
    /\ VersionDiffers(msg)
    /\ control_state = "CanMove"
    /\ msg.estimated_odometry # None
    /\ odometry_data = msg.estimated_odometry
    /\ error_message = VersionMismatchNotice
    /\ loop_pc = "sleep"
    /\ draws = 1
    /\ current_state = "CanMove"
    /\ Len(tick_out) = 1
    /\ tick_out[1] = [msg |-> MoveAt(target_speed), ok |-> TRUE]

\* ---- C16
\* C16 as stated: in every state the target velocity is nonzero only if a
\* directional key is tracked.
C16_NonzeroOnlyWhileHeld ==
    speed # ZeroSpeed => DOMAIN pressed_keys \cap DirKeys # {}

\* C16, amended: whenever the debouncer is not between an event or an
\* eviction pass and the recompute that follows it, the target velocity is
\* nonzero only if a directional key is tracked.
C16_NonzeroOnlyWhileHeldAfterRecompute ==
    kb_pc \in {"poll", "done"} =>
        (speed # ZeroSpeed => DOMAIN pressed_keys \cap DirKeys # {})

\* a repeated key was evicted and the recompute that followed gave zero
C16_Witness ==
    /\ kb_pc = "poll"
    /\ last_event = "d"
    /\ release_time = ReleaseShort
    /\ pressed_keys = NoKeys
    /\ speed = ZeroSpeed

\* ---- C17
\* the tracked keys with their holding flags
HeldKeys(keys) == [k \in DOMAIN keys |-> keys[k].is_holding]

\* C17: the terminate key read from a poll sets the terminate flag and
\* stops the debouncer without touching the tracked keys; the terminate key
\* is never tracked; and once the flag is set it stays set and the tracked
\* keys and the target velocity no longer change.
C17_TerminateStopsDebouncer ==
    [][ /\ (kb_pc = "poll" /\ last_event' = TerminateKey) =>
              /\ should_exit'
              /\ kb_pc' = "done"
              /\ HeldKeys(pressed_keys') = HeldKeys(pressed_keys)
              /\ speed' = speed
        /\ TerminateKey \notin DOMAIN pressed_keys'
        /\ should_exit =>
              /\ should_exit'
              /\ kb_pc' = "done"
              /\ HeldKeys(pressed_keys') = HeldKeys(pressed_keys)
              /\ speed' = speed ]_vars

\* the terminate key came while the forward key was tracked, and the
\* forward key has since outlived every release window
C17_Witness ==
    /\ should_exit
    /\ kb_pc = "done"
    /\ last_event = TerminateKey
    /\ DOMAIN pressed_keys = {"w"}
    /\ pressed_keys["w"].last_seen > ReleaseLong + PollTimeout
    /\ speed = [x |-> LINEAR_SPEED, y |-> 0, z |-> 0]

\* ---- C18
\* the debouncer leaves its poll for good and it was not the terminate key
PollErrorStep ==
    kb_pc = "poll" /\ kb_pc' = "done" /\ last_event' # TerminateKey

\* C18: a poll error stops the debouncer and changes neither the terminate
\* flag nor the target velocity nor the tracked keys; a stopped debouncer
\* stays stopped and these three keep their values; and with the debouncer
\* stopped and the flag not set, the loop reads that velocity and a tick
\* that read CanMove sends the move command with it and goes on unless the
\* send fails.
C18_PollErrorFreezesVelocity ==
    [][ /\ PollErrorStep =>
              /\ should_exit' = should_exit
              /\ speed' = speed
              /\ HeldKeys(pressed_keys') = HeldKeys(pressed_keys)
        /\ kb_pc = "done" =>
              /\ kb_pc' = "done"
              /\ should_exit' = should_exit
              /\ speed' = speed
              /\ HeldKeys(pressed_keys') = HeldKeys(pressed_keys)
        /\ (kb_pc = "done" /\ loop_pc = "speed" /\ loop_pc' # "speed") =>
              target_speed' = speed
        /\ (kb_pc = "done" /\ ~should_exit /\ SendStep
              /\ current_state = "CanMove") =>
              /\ Len(tick_out') = 1
              /\ tick_out'[1].msg = MoveAt(target_speed)
              /\ loop_pc' = IF tick_out'[1].ok THEN "sleep" ELSE "done" ]_vars

\* the poll failed while the forward key was tracked; the key has outlived
\* every release window, and a CanMove tick has sent the forward velocity
C18_Witness ==
    /\ kb_pc = "done"
    /\ ~should_exit
    /\ DOMAIN pressed_keys = {"w"}
    /\ pressed_keys["w"].last_seen > ReleaseLong + PollTimeout
    /\ speed = [x |-> LINEAR_SPEED, y |-> 0, z |-> 0]
    /\ loop_pc = "sleep"
    /\ draws = 1
    /\ current_state = "CanMove"
    /\ target_speed = speed
    /\ tick_out = <<[msg |-> MoveAt(speed), ok |-> TRUE]>>

\* ---- C19
\* the commands of a tick, by the terminate flag, the state and the target
\* velocity it read
C19_Commands(exit, st, v) ==
    IF exit THEN <<ReleaseControl>>
    ELSE IF st = "Uninitialized" THEN <<ReportAt50Hz, AcquireControl>>
    ELSE IF st = "CanMove" THEN <<MoveAt(v)>>
    ELSE << >>

\* C19: every tick draws exactly once, between its reads and its sends, on
\* every branch; the draw sends nothing and always goes on to the sends,
\* whether it fails or not; and what a tick sends and whether the loop goes
\* on are decided by the terminate flag, the state read, the target
\* velocity read and the outcome of the sends alone.
C19_OneDrawEveryTick ==
    [][ /\ (loop_pc = "draw" /\ loop_pc' # "draw") =>
              /\ draws = 0
              /\ draws' = 1
              /\ loop_pc' = "act"
              /\ tick_out' = tick_out
        /\ loop_pc # "draw" =>
              (draws' = draws \/ (loop_pc = "sleep" /\ draws' = 0))
        /\ (ActStep /\ ~should_exit) =>
              /\ loop_pc' = "match"
              /\ tick_out' = tick_out
              /\ draws' = draws
        /\ CommandStep =>
              LET exp == C19_Commands(loop_pc = "act", current_state,
                                      target_speed)
                  n == Len(tick_out')
              IN /\ draws = 1
                 /\ draws' = 1
                 /\ n <= Len(exp)
                 /\ n = IF exp = << >> THEN 0 ELSE Len(tick_out) + 1
                 /\ \A i \in 1..n : tick_out'[i].msg = exp[i]
                 /\ \A i \in 1..(n - 1) : tick_out'[i].ok
                 /\ loop_pc' = IF loop_pc = "act" THEN "closing"
                               ELSE IF n > 0 /\ ~tick_out'[n].ok THEN "done"
                               ELSE IF n < Len(exp) THEN "init"
                               ELSE "sleep"
        /\ BreakStep =>
              /\ loop_pc' = "done"
              /\ tick_out' = tick_out
              /\ draws' = draws ]_vars

\* the draw of a CanMove tick failed; the tick has sent its move command
\* and the loop goes on
C19_Witness ==
    /\ loop_pc = "sleep"
    /\ draws = 1
    /\ ~draw_ok
    /\ ~should_exit
    /\ current_state = "CanMove"
    /\ tick_out = <<[msg |-> MoveAt(target_speed), ok |-> TRUE]>>

\* ---- C20
\* the locks the next step of each task can ask for
C20_KbdWants ==
    IF kb_pc = "poll" THEN {"pressed_keys", "should_exit"}
    ELSE IF kb_pc = "update_speed" THEN {"pressed_keys"}
    ELSE IF kb_pc = "speed_locked" THEN {"speed"}
    ELSE {}

C20_RxWants ==
    IF rx_pc \in {"log", "expire", "notice"} THEN {"error_message"}
    ELSE IF rx_pc = "parking"
    THEN {IF msg.parking_stop_detail # None THEN "error_message"
          ELSE "emergency_stop"}
    ELSE IF rx_pc = "emergency" THEN {"emergency_stop"}
    ELSE IF rx_pc = "odometry" THEN {"odometry_data"}
    ELSE IF rx_pc = "state" THEN {"control_state"}
    ELSE {}

C20_LoopWants ==
    IF loop_pc = "sleep" THEN {"control_state"}
    ELSE IF loop_pc = "speed" THEN {"speed"}
    ELSE IF loop_pc = "odometry" THEN {"odometry_data"}
    ELSE IF loop_pc = "keys" THEN {"pressed_keys"}
    ELSE IF loop_pc = "error" THEN {"error_message"}
    ELSE IF loop_pc = "emergency" THEN {"emergency_stop"}
    ELSE IF loop_pc = "act" THEN {"should_exit"}
    ELSE {}

\* C20: the only lock held from one step of a task to its next is the lock
\* of the tracked keys, held by the debouncer while it asks for the lock of
\* the target velocity; and a lock that a task asks for is free, or it is
\* held by the debouncer, whose own next lock is free and whose next step
\* can be taken and releases it: no task waits for a task that waits.
C20_NoLockWaitCycle ==
    /\ \A l \in Locks :
          ~Free(l) => /\ l = "pressed_keys"
                      /\ lock_owner[l] = "kbd"
                      /\ kb_pc = "speed_locked"
    /\ \A l \in C20_KbdWants \cup C20_RxWants \cup C20_LoopWants :
          ~Free(l) => /\ lock_owner[l] = "kbd"
                      /\ l \notin C20_KbdWants
                      /\ \A m \in C20_KbdWants : Free(m)
                      /\ ENABLED KbdUpdateSpeed

\* the loop asks for the lock of the tracked keys while the debouncer holds
\* it and is about to take the lock of the target velocity
C20_Witness ==
    /\ loop_pc = "keys"
    /\ kb_pc = "speed_locked"
    /\ lock_owner["pressed_keys"] = "kbd"
    /\ ~ENABLED LoopReadKeys

\* ---- C21
\* the debouncer leaves its poll with an event of key k
KeyEventStep(k) ==
    /\ kb_pc = "poll"
    /\ kb_pc' = "update_speed"
    /\ last_event' = k
    /\ k \in DOMAIN pressed_keys'
    /\ pressed_keys'[k].last_seen = 0

\* the debouncer leaves its poll on a timeout, the latest event being a
\* key event
EvictionStep ==
    /\ kb_pc = "poll"
    /\ kb_pc' = "update_speed"
    /\ poll_elapsed = PollTimeout
    /\ last_event \in Keys
    /\ last_event' = last_event
    /\ \A k \in DOMAIN pressed_keys' : pressed_keys'[k].last_seen > 0

\* C21: the eviction timeout is one value: a key event sets it to 500 ms
\* when the key was not tracked and to 100 ms when it was, and nothing else
\* changes it; the eviction pass removes every key older than that value
\* and keeps every key younger than it, whatever the key's own last event
\* was.
C21_SharedEvictionTimeout ==
    [][ /\ \A k \in Keys :
              KeyEventStep(k) =>
                  release_time' = IF k \in DOMAIN pressed_keys
                                  THEN ReleaseShort ELSE ReleaseLong
        /\ (\A k \in Keys : ~KeyEventStep(k)) => release_time' = release_time
        /\ EvictionStep =>
              \A k \in DOMAIN pressed_keys :
                  /\ pressed_keys[k].last_seen > release_time
                        => k \notin DOMAIN pressed_keys'
                  /\ pressed_keys[k].last_seen < release_time
                        => k \in DOMAIN pressed_keys' ]_vars

\* an eviction pass has just run after a first press of the right key: the
\* forward key, whose last event was a repeat more than 100 ms ago, is
\* still tracked
C21_Witness ==
    /\ kb_pc = "update_speed"
    /\ last_event = "d"
    /\ release_time = ReleaseLong
    /\ DOMAIN pressed_keys = {"w", "d"}
    /\ ~pressed_keys["d"].is_holding
    /\ pressed_keys["d"].last_seen > 0
    /\ pressed_keys["w"].is_holding
    /\ pressed_keys["w"].last_seen > ReleaseShort + PollTimeout

\* ---- C22
\* C22: between frames the shared control state is never CanMove while the
\* shared emergency flag is set; the snapshot takes the control state as it
\* is at the first read of the tick and the emergency flag as it is at the
\* last read; and a tick that read CanMove and finds the terminate flag not
\* set sends its move command whatever emergency flag it read.
C22_TornSnapshot ==
    [][ /\ rx_pc \in {"recv", "done"} =>
              ~(control_state = "CanMove" /\ emergency_stop)
        /\ (loop_pc = "sleep" /\ loop_pc' # "sleep") =>
              current_state' = control_state
        /\ (loop_pc = "emergency" /\ loop_pc' # "emergency") =>
              /\ emergency' = emergency_stop
              /\ current_state' = current_state
        /\ (loop_pc = "draw" /\ loop_pc' # "draw") =>
              /\ loop_pc' = "act"
              /\ current_state' = current_state
        /\ (SendStep /\ current_state = "CanMove") =>
              /\ Len(tick_out') = 1
              /\ tick_out'[1].msg = MoveAt(target_speed) ]_vars

\* the snapshot about to be drawn has CanMove and the emergency flag, the
\* frame with the parking detail is done and has taken control away, and
\* the terminate flag is not set
C22_Witness ==
    /\ loop_pc = "draw"
    /\ current_state = "CanMove"
    /\ emergency
    /\ ~should_exit
    /\ kb_pc = "poll"
    /\ rx_pc = "recv"
    /\ last_status # None
    /\ last_status[1].parking_stop_detail # None
    /\ emergency_stop
    /\ control_state # "CanMove"

\* ---- C23
\* the fields the receiver writes, but for the notice
RxFields == <<control_state, odometry_data, emergency_stop>>

\* the notice is the one it was: the same text and the same instant, from
\* which only time has passed; it is neither cleared nor replaced
NoticeKept ==
    \/ error_message' = error_message
    \/ error_message' = AgeError(error_message)

\* C23: the step that ends the receiver writes none of its fields and
\* takes no lock; an ended receiver stays ended, takes in no frame, writes
\* none of its fields (the notice stays, however old it grows) and holds
\* none of their locks; and with the receiver ended the loop still reads the
\* control state at the start of a tick and sends the commands of the state
\* it read.
C23_ReceiverFailureEndsReceiverOnly ==
    [][ /\ (rx_pc = "recv" /\ rx_pc' = "done") =>
              /\ RxFields' = RxFields
              /\ error_message' = error_message
              /\ lock_owner' = lock_owner
        /\ rx_pc = "done" =>
              /\ rx_pc' = "done"
              /\ RxFields' = RxFields
              /\ NoticeKept
              /\ msg' = msg
              /\ last_status' = last_status
              /\ \A l \in Locks \ {"pressed_keys"} : Free(l)
        /\ (rx_pc = "done" /\ loop_pc = "sleep" /\ loop_pc' # "sleep") =>
              current_state' = control_state
        /\ (rx_pc = "done" /\ CommandStep) =>
              LET exp == C19_Commands(loop_pc = "act", current_state,
                                      target_speed)
                  n == Len(tick_out')
                  sent == \A i \in 1..n : tick_out'[i].ok
              IN /\ n <= Len(exp)
                 /\ \A i \in 1..n : tick_out'[i].msg = exp[i]
                 /\ loop_pc' = "init" <=>
                       (loop_pc = "match" /\ sent /\ n < Len(exp))
                 /\ loop_pc' = "sleep" <=>
                       (loop_pc # "act" /\ sent /\ n = Len(exp)) ]_vars

\* the receiver ended after a frame with a parking detail and without api
\* control; the flag and the notice of that frame are still there, the
\* notice older than its lifetime, and a tick has sent the two commands of
\* Uninitialized
C23_Witness ==
    /\ rx_pc = "done"
    /\ last_status # None
    /\ control_state = "Uninitialized"
    /\ emergency_stop
    /\ error_message.timestamp # None
    /\ error_message.timestamp[1] > ErrorExpiry
    /\ loop_pc = "sleep"
    /\ draws = 1
    /\ current_state = "Uninitialized"
    /\ Len(tick_out) = 2
    /\ tick_out[2] = [msg |-> AcquireControl, ok |-> TRUE]

\* ---- C24
\* the loop has ended with the release command
Released ==
    /\ loop_pc = "done"
    /\ Len(tick_out) = 1
    /\ tick_out[1].msg = ReleaseControl

\* C24 as stated: once the terminate flag is set and the loop has not
\* ended, the loop eventually sends the release command and ends.
C24_FlagLeadsToRelease ==
    (should_exit /\ loop_pc # "done") ~> Released

\* C24, amended: once the terminate flag is set, a loop that is not between
\* the flag check and the sends of a tick eventually sends the release
\* command and ends, in every control state; a loop that is between them
\* eventually ends; once the flag is set no tick passes the flag check any
\* more, and only the tick that had passed it sends anything but the
\* release command.
C24_FlagLeadsToReleaseUnlessSendFails ==
    /\ (should_exit /\ loop_pc \notin {"match", "init", "done"}) ~> Released
    /\ should_exit ~> (loop_pc = "done")
    /\ [][ /\ (should_exit /\ loop_pc' = "match") => loop_pc = "match"
           /\ (should_exit /\ loop_pc \notin {"match", "init"}
                 /\ tick_out' # tick_out /\ tick_out' # << >>) =>
                 /\ Len(tick_out') = 1
                 /\ tick_out'[1].msg = ReleaseControl
                 /\ loop_pc' = "closing" ]_vars

\* the loop has ended with the release command on a tick that read
\* InitializedButNotHold
C24_Witness ==
    /\ Released
    /\ should_exit
    /\ draws = 1
    /\ current_state = "InitializedButNotHold"

\* ---- C25
\* C25: when the last step of a status frame with a parking detail is
\* taken, the emergency flag is set, the control state is not CanMove, and
\* the notice is the control-lost notice if the frame has api control
\* initialized and the emergency message with the detail if it has not; and
\* between frames the control state is CanMove only with the emergency flag
\* not set.
C25_ParkingFrame ==
    [][ /\ (NoticeStep /\ msg.parking_stop_detail # None) =>
              /\ emergency_stop'
              /\ control_state' # "CanMove"
              /\ IF msg.api_control_initialized
                 THEN error_message' = ControlLostNotice
                 ELSE /\ error_message'.message =
                            <<"Emergency Stop: ", msg.parking_stop_detail[1]>>
                      /\ error_message'.timestamp # None
        /\ (rx_pc' \in {"recv", "done"} /\ control_state' = "CanMove")
              => ~emergency_stop' ]_vars

\* a frame with a parking detail and without api control is done, though
\* it names this session as the holder: the flag is set, the state is
\* Uninitialized and the notice is the emergency message
C25_Witness ==
    /\ rx_pc = "recv"
    /\ last_status # None
    /\ msg = last_status[1]
    /\ msg.parking_stop_detail = Some("EmergencyStopButton")
    /\ ~msg.api_control_initialized
    /\ msg.session_holder = msg.session_id
    /\ emergency_stop
    /\ control_state = "Uninitialized"
    /\ error_message.message = <<"Emergency Stop: ", "EmergencyStopButton">>

\* ---- C26
\* C26: a record leaves the tracked keys only on a wake-up by the poll
\* timeout; a wake-up with a key event leaves every other record as it is
\* and removes none; and after every recompute a tracked forward key gives
\* the forward velocity, however old its record is.
C26_EvictionOnlyOnTimeout ==
    [][ /\ ~(DOMAIN pressed_keys \subseteq DOMAIN pressed_keys') =>
              /\ kb_pc = "poll"
              /\ kb_pc' = "update_speed"
              /\ poll_elapsed = PollTimeout
              /\ last_event' = last_event
        /\ \A k \in Keys :
              KeyEventStep(k) =>
                  \A j \in DOMAIN pressed_keys \ {k} :
                      /\ j \in DOMAIN pressed_keys'
                      /\ pressed_keys'[j] = pressed_keys[j]
        /\ (kb_pc' = "poll" /\ "w" \in DOMAIN pressed_keys') =>
              speed'.x = LINEAR_SPEED ]_vars

\* events of the right key kept arriving: the record of the forward key is
\* older than every release window and one poll, and it still drives the
\* target velocity
C26_Witness ==
    /\ kb_pc = "poll"
    /\ last_event = "d"
    /\ DOMAIN pressed_keys = {"w", "d"}
    /\ pressed_keys["w"].last_seen = MaxKeyAge
    /\ pressed_keys["d"].last_seen = 0
    /\ speed = [x |-> LINEAR_SPEED, y |-> LINEAR_SPEED, z |-> 0]

\* ---- C27
\* C27: a frame with a log field is handled first at its log field, where
\* the notice becomes the log message, freshly raised, and nothing else
\* changes, with or without a base status; and while the frame in hand has
\* no base status the control state, the emergency flag and the odometry
\* stay as they are.
C27_LogNoticeFirst ==
    [][ /\ (rx_pc = "recv" /\ rx_pc' # "done" /\ msg'.log # None) =>
              /\ rx_pc' \in {"recv", "log"}
              /\ rx_pc' = "recv" => msg' = msg
        /\ (rx_pc = "log" /\ rx_pc' # "log") =>
              /\ error_message' = [message |-> <<"Log: ", msg.log[1]>>,
                                   timestamp |-> Some(0)]
              /\ rx_pc' = IF msg.status = "base" THEN "parking" ELSE "recv"
              /\ control_state' = control_state
              /\ emergency_stop' = emergency_stop
              /\ odometry_data' = odometry_data
        /\ (rx_pc = "recv" /\ rx_pc' = "parking") => msg'.log = None
        /\ msg'.status = "none" =>
              /\ control_state' = control_state
              /\ emergency_stop' = emergency_stop
              /\ odometry_data' = odometry_data ]_vars

\* a frame with a log field and without a base status is done: the notice
\* is its log message, and the state and odometry of an earlier status
\* frame are still there
C27_Witness ==
    /\ rx_pc = "recv"
    /\ msg.status = "none"
    /\ msg.log = Some("log")
    /\ error_message = [message |-> <<"Log: ", "log">>, timestamp |-> Some(0)]
    /\ control_state = "CanMove"
    /\ odometry_data # None

====
